---------------------------- MODULE Spec2Model ----------------------------
(***************************************************************************)
(* The slot-filling dialog engine of slot-graph-scheduler:                 *)
(* GraphManager (src/src/graph_manager.py), the slot chain                 *)
(* (src/src/slots.py) and the reference option provider                    *)
(* (src/mock_client.py).                                                   *)
(*                                                                         *)
(* Text is modelled as TLA+ strings, character by character: lower(),      *)
(* strip(), the `in` substring test, split(" to ", 1) and ", ".join are    *)
(* computed as Python computes them.                                       *)
(***************************************************************************)
EXTENDS Integers, Sequences, FiniteSets, TLC

VARIABLES
    threads,    \* GraphManager._threads: thread_id -> stored state dict
    tasks,      \* process_message coroutines suspended at asyncio.to_thread
    thread_id,  \* the thread_id of the last process_message call that returned or raised
    message,    \* the utterance of that call
    reply,      \* what that call returned (Raised when it raised)
    happy,      \* history: number of turns so far when each turn submitted an option
                \* of the next slot of a fresh session (-1 otherwise)
    calls,      \* history: the process_message calls made so far, <<thread_id, message>>
    replica,    \* _threads of a second GraphManager, handed a copy of the store
    websockets, \* the connections of websocket_endpoint (src/src/app.py): their
                \* state and the frames sent on them
    active_connections, \* app.active_connections, in insertion order:
                        \* <<thread_id, connection>>
    context,    \* the context ctx handed to Slot.options (src/src/slots.py)
    resolved    \* the last call of Slot.options on context and what came of it

vars == <<threads, tasks, thread_id, message, reply, happy, calls,
          replica, websockets, active_connections, context, resolved>>

\* what the turns of the dialog engine leave alone
outside == <<replica, websockets, active_connections, context, resolved>>

\* what the calls of Slot.options on a context of their own write
lookup == <<context, resolved>>

-----------------------------------------------------------------------------
(* Python values *)

\* Python's None, for the optional strings (slot values, user_message,
\* response_message): a string no option, utterance or reply equals.
None == "<None>"

\* The reply slot of a call that raised instead of returning.
Raised == "<raised>"

\* bool(v) of an optional string
Truthy(v) == v # None /\ v # ""

Range(seq) == {seq[i] : i \in 1..Len(seq)}

\* dict.get(k): None for a missing key
Get(d, k) == IF k \in DOMAIN d THEN d[k] ELSE None

-----------------------------------------------------------------------------
(* Python str methods *)

LowerMap ==
    [A |-> "a", B |-> "b", C |-> "c", D |-> "d", E |-> "e", F |-> "f", G |-> "g",
     H |-> "h", I |-> "i", J |-> "j", K |-> "k", L |-> "l", M |-> "m", N |-> "n",
     O |-> "o", P |-> "p", Q |-> "q", R |-> "r", S |-> "s", T |-> "t", U |-> "u",
     V |-> "v", W |-> "w", X |-> "x", Y |-> "y", Z |-> "z"]

CharAt(s, i) == SubSeq(s, i, i)

RECURSIVE LowerFrom(_, _)
LowerFrom(s, i) ==
    IF i > Len(s) THEN ""
    ELSE LET c == CharAt(s, i)
         IN (IF c \in DOMAIN LowerMap THEN LowerMap[c] ELSE c) \o LowerFrom(s, i + 1)

\* str.lower()
Lower(s) == LowerFrom(s, 1)

IsSpace(c) == c \in {" ", "\t", "\n"}

\* str.strip()
Strip(s) ==
    LET keep == {i \in 1..Len(s) : ~IsSpace(CharAt(s, i))}
    IN IF keep = {} THEN ""
       ELSE LET a == CHOOSE i \in keep : \A j \in keep : i <= j
                b == CHOOSE i \in keep : \A j \in keep : j <= i
            IN SubSeq(s, a, b)

\* `t in s` for strings
Contains(s, t) ==
    \E i \in 1..(Len(s) - Len(t) + 1) : SubSeq(s, i, i + Len(t) - 1) = t

\* s.split(sep, 1): <<s>> when sep does not occur, else <<before, after>> of
\* the first occurrence
Split1(s, sep) ==
    LET at == {i \in 1..(Len(s) - Len(sep) + 1) : SubSeq(s, i, i + Len(sep) - 1) = sep}
    IN IF at = {} THEN <<s>>
       ELSE LET i == CHOOSE i \in at : \A j \in at : i <= j
            IN <<SubSeq(s, 1, i - 1), SubSeq(s, i + Len(sep), Len(s))>>

RECURSIVE JoinFrom(_, _)
JoinFrom(list, i) ==
    IF i > Len(list) THEN ""
    ELSE IF i = Len(list) THEN list[i]
    ELSE list[i] \o ", " \o JoinFrom(list, i + 1)

\* ", ".join(list)
Join(list) == JoinFrom(list, 1)

\* next((o for o in options if P(o)), None), as an index: 0 when no option
\* satisfies P
FirstIndex(options, P(_)) ==
    LET ok == {i \in 1..Len(options) : P(options[i])}
    IN IF ok = {} THEN 0 ELSE CHOOSE i \in ok : \A j \in ok : i <= j

-----------------------------------------------------------------------------
(* MockApiClient *)

get_hospitals == <<"Central Hospital", "North Hospital">>

get_specialties(hospital) ==
    IF hospital = "Central Hospital" THEN <<"Cardiology", "Dermatology">>
    ELSE IF hospital = "North Hospital" THEN <<"Pediatrics", "Traumatology">>
    ELSE <<>>

get_doctors(hospital, specialty) ==
    CASE hospital = "Central Hospital" /\ specialty = "Cardiology" -> <<"Dr. Garcia", "Dr. Perez">>
      [] hospital = "Central Hospital" /\ specialty = "Dermatology" -> <<"Dr. Lopez">>
      [] hospital = "North Hospital" /\ specialty = "Pediatrics" -> <<"Dr. Ruiz">>
      [] hospital = "North Hospital" /\ specialty = "Traumatology" -> <<"Dr. Fernandez", "Dr. Ortega">>
      [] OTHER -> <<>>

get_appointment_slots(hospital, specialty, doctor) ==
    CASE hospital = "Central Hospital" /\ specialty = "Cardiology" /\ doctor = "Dr. Garcia"
            -> <<"2024-05-01 10:00", "2024-05-01 12:00">>
      [] hospital = "Central Hospital" /\ specialty = "Cardiology" /\ doctor = "Dr. Perez"
            -> <<"2024-05-02 09:30">>
      [] hospital = "North Hospital" /\ specialty = "Pediatrics" /\ doctor = "Dr. Ruiz"
            -> <<"2024-05-03 15:00", "2024-05-04 11:00">>
      [] OTHER -> <<>>

-----------------------------------------------------------------------------
(* The slot chain *)

\* the names of build_default_slots, in chain order
slot_definitions == <<"hospital", "specialty", "doctor", "timeslot">>

\* Whether the slot's options_fn reaches the option provider for context ctx
\* (it returns [] without a call when an upstream answer is falsy).
\* an options_fn that reaches the provider whatever the context holds
CallsApi_Always(slot_name, ctx) == TRUE

CallsApi(slot_name, ctx) ==
    CASE slot_name = "hospital" -> TRUE
      [] slot_name = "specialty" -> Truthy(Get(ctx, "hospital"))
      [] slot_name = "doctor" -> Truthy(Get(ctx, "hospital")) /\ Truthy(Get(ctx, "specialty"))
      [] slot_name = "timeslot" ->
            /\ Truthy(Get(ctx, "hospital")) /\ Truthy(Get(ctx, "specialty"))
            /\ Truthy(Get(ctx, "doctor"))

\* Slot.options(ctx) of the slot named slot_name
SlotOptions(slot_name, ctx) ==
    IF ~CallsApi(slot_name, ctx) THEN <<>>
    ELSE CASE slot_name = "hospital" -> get_hospitals
           [] slot_name = "specialty" -> get_specialties(ctx["hospital"])
           [] slot_name = "doctor" -> get_doctors(ctx["hospital"], ctx["specialty"])
           [] slot_name = "timeslot" ->
                get_appointment_slots(ctx["hospital"], ctx["specialty"], ctx["doctor"])

-----------------------------------------------------------------------------
(* SlotFillingState *)

EmptyDict == [n \in {} |-> None]

\* SlotFillingState(): the field defaults
DefaultState ==
    [slot_order |-> <<>>,
     slot_values |-> EmptyDict,
     slot_states |-> EmptyDict,
     current_slot_index |-> 0,
     awaiting_slot_input |-> FALSE,
     completed |-> FALSE,
     first_message |-> TRUE,
     user_message |-> None,
     response_message |-> None]

\* all(state.slot_values.values())
AllFilled(s) == \A n \in DOMAIN s.slot_values : Truthy(s.slot_values[n])

\* the position (from 1) of a slot name in slot_order
PosOf(order, n) == CHOOSE i \in 1..Len(order) : order[i] = n

\* state.slot_order[state.current_slot_index]
CurrentSlot(s) == s.slot_order[s.current_slot_index + 1]

\* (state.user_message or "").strip()
StrippedMessage(s) == Strip(IF Truthy(s.user_message) THEN s.user_message ELSE "")

\* for j in range(slot_index + 1, len(slot_order)): d[slot_order[j]] = fill
\* (idx is the position from 1 of the slot at slot_index)
\* a change that leaves the later slots as they are
ResetAfter_Kept(d, order, idx, fill) == d

\* a reset of every slot but the changed one
ResetAfter_Others(d, order, idx, fill) ==
    [n \in DOMAIN d |-> IF PosOf(order, n) # idx THEN fill ELSE d[n]]

ResetAfter(d, order, idx, fill) ==
    [n \in DOMAIN d |-> IF PosOf(order, n) > idx THEN fill ELSE d[n]]

-----------------------------------------------------------------------------
(* One run of the engine: the state in hand, the option-provider lookups    *)
(* made so far in this turn, and the lookup (failAt, 0 for none) at which   *)
(* the option provider raises.  A value used in several places of a         *)
(* function body is a parameter of a continuation operator.                 *)

Run0(s, k) == [st |-> s, lookups |-> 0, failAt |-> k, raised |-> FALSE]

\* The run after the lookup, as far as x.failAt lets it go: the lookup counts
\* when options_fn reaches the provider (called).
FetchCounted(x, called) ==
    [x EXCEPT !.lookups = x.lookups + (IF called THEN 1 ELSE 0),
              !.raised = (called /\ x.lookups + 1 = x.failAt)]

\* self._options_for_slot(state, slot_name), as far as it can raise
Fetch(x, slot_name) == FetchCounted(x, CallsApi(slot_name, x.st.slot_values))

\* the list self._options_for_slot(state, slot_name) returns
_options_for_slot(s, slot_name) == SlotOptions(slot_name, s.slot_values)

\* for option in options: if option.lower() in fragment or fragment in
\* option.lower(): the position of the first such option, 0 for none
\* a match that takes the last such option
MatchFragment_Last(options, fragment) ==
    LET ok == {i \in 1..Len(options) : \/ Contains(fragment, Lower(options[i]))
                                        \/ Contains(Lower(options[i]), fragment)}
    IN IF ok = {} THEN 0 ELSE CHOOSE i \in ok : \A j \in ok : i >= j

MatchFragment(options, fragment) ==
    FirstIndex(options, LAMBDA o : \/ Contains(fragment, Lower(o))
                                   \/ Contains(Lower(o), fragment))

\* "Changed X to Y. Please select a Z. Options: ..."
ChangedAndPrompt(slot, new_value, next_slot, next_options) ==
    "Changed " \o slot \o " to " \o new_value \o ". Please select a " \o next_slot
    \o ". Options: " \o Join(next_options)

-----------------------------------------------------------------------------
(* The graph nodes *)

_init_state(x) ==
    IF x.st.slot_order = <<>>
    THEN [x EXCEPT !.st.slot_order = slot_definitions,
                   !.st.slot_values = [n \in Range(slot_definitions) |-> None],
                   !.st.slot_states = [n \in Range(slot_definitions) |-> "EMPTY"]]
    ELSE x

\* _detect_intent, lines 168-174: a new appointment after finishing
\* a reset that writes a status for a name slot_order does not hold
DetectReset_ExtraStatus(x, msg_low) ==
    IF AllFilled(x.st) /\ \E w \in {"another", "new", "different"} : Contains(msg_low, w)
    THEN [x EXCEPT !.st.slot_values = [n \in Range(x.st.slot_order) |-> None],
                   !.st.slot_states = [n \in Range(x.st.slot_order) \cup {"appointment"} |-> "EMPTY"],
                   !.st.current_slot_index = 0,
                   !.st.completed = FALSE]
    ELSE x

DetectReset(x, msg_low) ==
    IF AllFilled(x.st) /\ \E w \in {"another", "new", "different"} : Contains(msg_low, w)
    THEN [x EXCEPT !.st.slot_values = [n \in Range(x.st.slot_order) |-> None],
                   !.st.slot_states = [n \in Range(x.st.slot_order) |-> "EMPTY"],
                   !.st.current_slot_index = 0,
                   !.st.completed = FALSE]
    ELSE x

\* _detect_intent, lines 160-161: the reply once the next slot's options are in
DetectChangePrompt(x2, referenced_slot, new_value, next_slot) ==
    IF x2.raised THEN x2
    ELSE [x2 EXCEPT !.st.response_message =
            ChangedAndPrompt(referenced_slot, new_value, next_slot,
                             _options_for_slot(x2.st, next_slot))]

\* _detect_intent, lines 150-166: s1 is the state with the new value set and
\* the downstream slots reset
DetectChangeNext(x1, s1, idx, referenced_slot, new_value) ==
    IF idx - 1 < Len(s1.slot_order) - 1
    THEN DetectChangePrompt(
            Fetch([x1 EXCEPT !.st = [s1 EXCEPT !.current_slot_index = idx,
                                               !.awaiting_slot_input = TRUE]],
                  s1.slot_order[idx + 1]),
            referenced_slot, new_value, s1.slot_order[idx + 1])
    ELSE [x1 EXCEPT !.st = [s1 EXCEPT !.response_message =
                    "Changed " \o referenced_slot \o " to " \o new_value \o "."]]

\* _detect_intent, lines 138-148: oi is the position of the matched option
\* (0: new_value is None)
DetectChangeApply(x1, msg_low, idx, referenced_slot, available_options, oi) ==
    IF oi = 0 \/ ~Truthy(available_options[oi]) THEN DetectReset(x1, msg_low)
    ELSE DetectChangeNext(
            x1,
            [x1.st EXCEPT
               !.slot_values = ResetAfter([x1.st.slot_values EXCEPT
                                              ![referenced_slot] = available_options[oi]],
                                          x1.st.slot_order, idx, None),
               !.slot_states = ResetAfter([x1.st.slot_states EXCEPT
                                              ![referenced_slot] = "CHANGING"],
                                          x1.st.slot_order, idx, "EMPTY")],
            idx, referenced_slot, available_options[oi])

\* _detect_intent, lines 124-136: x1 is the run after the lookup of the
\* referenced slot's options
DetectChangeValue(x1, msg_low, idx, referenced_slot, available_options) ==
    IF x1.raised THEN x1
    ELSE DetectChangeApply(
            x1, msg_low, idx, referenced_slot, available_options,
            IF Contains(msg_low, " to ")
            THEN MatchFragment(available_options, Strip(Split1(msg_low, " to ")[2]))
            ELSE 0)

\* _detect_intent, lines 120-126: idx is the position of the referenced slot
\* (0: none)
DetectChangeSlot(x, msg_low, idx) ==
    IF idx = 0 THEN x
    ELSE DetectChangeValue(Fetch(x, x.st.slot_order[idx]), msg_low, idx,
                           x.st.slot_order[idx],
                           _options_for_slot(x.st, x.st.slot_order[idx]))

\* _detect_intent, lines 105-118: the first slot that holds a value and is
\* named in the message
DetectChange(x, msg_low) ==
    DetectChangeSlot(x, msg_low,
        FirstIndex(x.st.slot_order,
                   LAMBDA n : x.st.slot_values[n] # None /\ Contains(msg_low, n)))

\* _detect_intent, lines 100-174: msg is the stripped message, not empty, of
\* a turn that is not the first
\* an intent detection that does not look at awaiting_slot_input
DetectIntentOf_IgnoresAwaiting(x, msg_low) ==
    IF Contains(msg_low, "change") THEN DetectChange(x, msg_low)
    ELSE DetectReset(x, msg_low)

DetectIntentOf(x, msg_low) ==
    IF x.st.awaiting_slot_input THEN x
    ELSE IF Contains(msg_low, "change") THEN DetectChange(x, msg_low)
    ELSE DetectReset(x, msg_low)

\* a first turn that leaves first_message set
_detect_intent_KeepsFirst(x) ==
    IF x.st.first_message \/ StrippedMessage(x.st) = ""
    THEN x
    ELSE DetectIntentOf(x, Lower(StrippedMessage(x.st)))

_detect_intent(x) ==
    IF x.st.first_message \/ StrippedMessage(x.st) = ""
    THEN [x EXCEPT !.st.first_message = FALSE]
    ELSE DetectIntentOf(x, Lower(StrippedMessage(x.st)))

\* The edge taken after detect_intent. (The function also sets
\* awaiting_slot_input before it returns "prompt"; prompt_slot, the node that
\* edge leads to, sets it as well.)
\* a routing that prompts whenever no slot holds a value yet and none is awaited
_route_after_intent_PromptsFirst(s) ==
    IF s.first_message \/ StrippedMessage(s) = "" THEN "prompt"
    ELSE IF s.awaiting_slot_input THEN "process"
    ELSE IF \A n \in DOMAIN s.slot_values : s.slot_values[n] = None THEN "prompt"
    ELSE IF \E n \in DOMAIN s.slot_states : s.slot_states[n] = "CHANGING" THEN "prompt"
    ELSE IF AllFilled(s) THEN "done"
    ELSE "process"

\* a routing that never re-confirms: a filled session is processed again
_route_after_intent_NoDone(s) ==
    IF s.first_message \/ StrippedMessage(s) = "" THEN "prompt"
    ELSE IF s.awaiting_slot_input THEN "process"
    ELSE IF \E n \in DOMAIN s.slot_states : s.slot_states[n] = "CHANGING" THEN "prompt"
    ELSE "process"

_route_after_intent(s) ==
    IF s.first_message \/ StrippedMessage(s) = "" THEN "prompt"
    ELSE IF s.awaiting_slot_input THEN "process"
    ELSE IF \E n \in DOMAIN s.slot_states : s.slot_states[n] = "CHANGING" THEN "prompt"
    ELSE IF AllFilled(s) THEN "done"
    ELSE "process"

\* The texts hold ASCII stand-ins for the check mark, the bullets and the
\* typographic apostrophe of the source.
_format_completion(s) ==
    IF ~AllFilled(s)
    THEN "We still need more information to finalise your appointment."
    ELSE "[OK] Your appointment is booked!\n"
         \o "* Hospital: " \o s.slot_values["hospital"] \o "\n"
         \o "* Specialty: " \o s.slot_values["specialty"] \o "\n"
         \o "* Doctor: " \o s.slot_values["doctor"] \o "\n"
         \o "* Date/Time: " \o s.slot_values["timeslot"] \o "\n\n"
         \o "Let me know if you'd like to change anything."

\* _process_slot_input, lines 216-222: x2 is the run after the lookup of the
\* next slot's options
ProcessSlotPrompt(x2, matched, current, nxt) ==
    IF x2.raised THEN x2
    ELSE [x2 EXCEPT !.st.awaiting_slot_input = TRUE,
                    !.st.response_message =
                        "Great, " \o matched \o " selected for " \o current \o ". "
                        \o "Now choose " \o nxt \o ": "
                        \o Join(_options_for_slot(x2.st, nxt))]

\* _process_slot_input, lines 223-225
ProcessSlotComplete(x1, s2) ==
    [x1 EXCEPT !.st = [s2 EXCEPT !.response_message = _format_completion(s2)]]

\* _process_slot_input, lines 214-226: s1 is the state with the answer stored
\* a valid answer that completes the session one slot early
ProcessSlotNext_Early(x1, s1, matched, current) ==
    IF s1.current_slot_index < Len(s1.slot_order) - 2
    THEN ProcessSlotPrompt(
            Fetch([x1 EXCEPT !.st = [s1 EXCEPT !.current_slot_index = s1.current_slot_index + 1]],
                  s1.slot_order[s1.current_slot_index + 2]),
            matched, current, s1.slot_order[s1.current_slot_index + 2])
    ELSE ProcessSlotComplete(x1, [s1 EXCEPT !.completed = TRUE])

ProcessSlotNext(x1, s1, matched, current) ==
    IF s1.current_slot_index < Len(s1.slot_order) - 1
    THEN ProcessSlotPrompt(
            Fetch([x1 EXCEPT !.st = [s1 EXCEPT !.current_slot_index = s1.current_slot_index + 1]],
                  s1.slot_order[s1.current_slot_index + 2]),
            matched, current, s1.slot_order[s1.current_slot_index + 2])
    ELSE ProcessSlotComplete(x1, [s1 EXCEPT !.completed = TRUE])

\* _process_slot_input, lines 201-212: mi is the position of the matched
\* option (0: matched is None)
ProcessSlotMatch(x1, current, options, selection, mi) ==
    IF mi = 0 \/ ~Truthy(options[mi])
    THEN [x1 EXCEPT !.st.response_message =
            "Sorry, '" \o selection \o "' isn't valid for " \o current \o ". "
            \o "Choices: " \o Join(options)]
    ELSE ProcessSlotNext(x1,
                         [x1.st EXCEPT !.slot_values[current] = options[mi],
                                       !.slot_states[current] = "FILLED",
                                       !.awaiting_slot_input = FALSE],
                         options[mi], current)

\* next((o for o in options if o.lower() == selection.lower()), None), as a
\* position
\* a match that accepts a part of an option
MatchSelection_Substring(options, selection) ==
    FirstIndex(options, LAMBDA o : Contains(Lower(o), Lower(selection)))

\* a match that tells upper case from lower case
MatchSelection_CaseSensitive(options, selection) ==
    FirstIndex(options, LAMBDA o : o = selection)

\* a match that accepts an answer holding an option
MatchSelection_Holding(options, selection) ==
    FirstIndex(options, LAMBDA o : Contains(Lower(selection), Lower(o)))

MatchSelection(options, selection) ==
    FirstIndex(options, LAMBDA o : Lower(o) = Lower(selection))

\* _process_slot_input, lines 198-201: x1 is the run after the lookup of the
\* current slot's options
ProcessSlotWith(x1, current, options, selection) ==
    IF x1.raised THEN x1
    ELSE ProcessSlotMatch(x1, current, options, selection,
                          MatchSelection(options, selection))

_process_slot_input(x) ==
    ProcessSlotWith(Fetch(x, CurrentSlot(x.st)), CurrentSlot(x.st),
                    _options_for_slot(x.st, CurrentSlot(x.st)), StrippedMessage(x.st))

_route_after_processing(s) == IF s.completed THEN "done" ELSE "next"

\* _prompt_for_slot, lines 236-237: x1 is the run after the lookup
\* a prompt that does not arm awaiting_slot_input
PromptWith_NotAwaiting(x1, current) ==
    IF x1.raised THEN x1
    ELSE [x1 EXCEPT !.st.response_message =
                        "Please select a " \o current \o ". Options: "
                        \o Join(_options_for_slot(x1.st, current))]

PromptWith(x1, current) ==
    IF x1.raised THEN x1
    ELSE [x1 EXCEPT !.st.awaiting_slot_input = TRUE,
                    !.st.response_message =
                        "Please select a " \o current \o ". Options: "
                        \o Join(_options_for_slot(x1.st, current))]

_prompt_for_slot(x) == PromptWith(Fetch(x, CurrentSlot(x.st)), CurrentSlot(x.st))

_complete_appointment(x) == [x EXCEPT !.st.response_message = _format_completion(x.st)]

\* the conditional edges of process_slot
AfterProcessSlot(x2) ==
    IF x2.raised THEN x2
    ELSE IF _route_after_processing(x2.st) = "done" THEN _complete_appointment(x2)
    ELSE _prompt_for_slot(x2)

\* the conditional edges of detect_intent
AfterDetectIntent(x1) ==
    IF x1.raised THEN x1
    ELSE IF _route_after_intent(x1.st) = "prompt" THEN _prompt_for_slot(x1)
    ELSE IF _route_after_intent(x1.st) = "done" THEN _complete_appointment(x1)
    ELSE AfterProcessSlot(_process_slot_input(x1))

\* self.executor.invoke(state): the graph of _build_graph, from its entry
\* point to END; a node that raises ends the run.
invoke(x) == AfterDetectIntent(_detect_intent(_init_state(x)))

\* The graph of _build_graph as the executor walks it: the node functions,
\* the edges, and the walk from a node to END.
END == "__end__"

RunNode(node, x) ==
    CASE node = "init" -> _init_state(x)
      [] node = "detect_intent" -> _detect_intent(x)
      [] node = "prompt_slot" -> _prompt_for_slot(x)
      [] node = "process_slot" -> _process_slot_input(x)
      [] node = "complete" -> _complete_appointment(x)

\* the path map of a conditional edge: the node a route leads to
RouteTarget(node, route) ==
    CASE node = "detect_intent" /\ route = "process" -> "process_slot"
      [] node = "detect_intent" /\ route = "prompt" -> "prompt_slot"
      [] node = "detect_intent" /\ route = "done" -> "complete"
      [] node = "detect_intent" /\ route = "end" -> END
      [] node = "process_slot" /\ route = "next" -> "prompt_slot"
      [] node = "process_slot" /\ route = "done" -> "complete"
      [] node = "process_slot" /\ route = "retry" -> "prompt_slot"

\* a graph whose process_slot leads back to detect_intent until the session
\* is completed
NextNode_Retry(node, s) ==
    CASE node = "init" -> "detect_intent"
      [] node = "detect_intent" -> RouteTarget(node, _route_after_intent(s))
      [] node = "process_slot" ->
            IF s.completed THEN "complete" ELSE "detect_intent"
      [] node = "prompt_slot" -> END
      [] node = "complete" -> END

\* the node that follows node when node left state s
NextNode(node, s) ==
    CASE node = "init" -> "detect_intent"
      [] node = "detect_intent" -> RouteTarget(node, _route_after_intent(s))
      [] node = "process_slot" -> RouteTarget(node, _route_after_processing(s))
      [] node = "prompt_slot" -> END
      [] node = "complete" -> END

\* the most node visits a walk is followed for
MaxVisits == 6

Walked(x, path, ended) == [x |-> x, path |-> path, ended |-> ended]

\* the walk from node on: the run it ends with, the nodes visited, and
\* whether END was reached (a node that raises ends the walk before END)
RECURSIVE Walk(_, _, _)
WalkOn(node, y, path) ==
    IF y.raised THEN Walked(y, path, FALSE)
    ELSE Walk(NextNode(node, y.st), y, path)

Walk(node, x, path) ==
    IF node = END THEN Walked(x, path, TRUE)
    ELSE IF Len(path) >= MaxVisits THEN Walked(x, path, FALSE)
    ELSE WalkOn(node, RunNode(node, x), Append(path, node))

-----------------------------------------------------------------------------
(* Persistence and process_message *)

Fields == DOMAIN DefaultState

\* state.model_dump(), and dict(state) of the graph's output: every field
\* a dump that leaves awaiting_slot_input out
model_dump_NoAwaiting(s) == [f \in Fields \ {"awaiting_slot_input"} |-> s[f]]

model_dump(s) == [f \in Fields |-> s[f]]

\* SlotFillingState.model_validate(raw): the fields raw holds, the default
\* for a field it lacks
model_validate(raw) == [f \in Fields |-> IF f \in DOMAIN raw THEN raw[f] ELSE DefaultState[f]]

\* _load_state: the state stored for the thread, the default state for an
\* unknown thread
_load_state(store, t) ==
    IF t \in DOMAIN store THEN model_validate(store[t]) ELSE DefaultState

\* _save_state: self._threads[thread_id] = serialisable
\* a save that keeps the saved thread only
_save_state_Alone(store, t, s) == [u \in {t} |-> model_dump(s)]

_save_state(store, t, s) ==
    [u \in DOMAIN store \cup {t} |-> IF u = t THEN model_dump(s) ELSE store[u]]

\* what _handle_change_intent hands back: the run after it and the response
\* it returns (None when it returns None)
Handled(x, response) == [x |-> x, response |-> response]

\* _handle_change_intent, lines 354-356: x2 is the run after the lookup of
\* the next slot's options
HandleChangePrompt(x2, target_slot, new_value, next_slot) ==
    IF x2.raised THEN Handled(x2, None)
    ELSE Handled([x2 EXCEPT !.st.response_message =
                     ChangedAndPrompt(target_slot, new_value, next_slot,
                                      _options_for_slot(x2.st, next_slot))],
                 ChangedAndPrompt(target_slot, new_value, next_slot,
                                  _options_for_slot(x2.st, next_slot)))

\* a change of the last slot that moves the cursor past it
HandleChangeNext_PastLast(x1, s1, idx, target_slot, new_value) ==
    IF idx < Len(s1.slot_order)
    THEN HandleChangePrompt(
            Fetch([x1 EXCEPT !.st = [s1 EXCEPT !.current_slot_index = idx,
                                               !.awaiting_slot_input = TRUE]],
                  s1.slot_order[idx + 1]),
            target_slot, new_value, s1.slot_order[idx + 1])
    ELSE Handled([x1 EXCEPT !.st = [s1 EXCEPT !.current_slot_index = idx,
                                              !.response_message =
                        "Changed " \o target_slot \o " to " \o new_value \o "."]],
                 "Changed " \o target_slot \o " to " \o new_value \o ".")

\* a change that leaves the cursor where it was
HandleChangeNext_KeepsCursor(x1, s1, idx, target_slot, new_value) ==
    IF idx < Len(s1.slot_order)
    THEN HandleChangePrompt(
            Fetch([x1 EXCEPT !.st = [s1 EXCEPT !.awaiting_slot_input = TRUE]],
                  s1.slot_order[idx + 1]),
            target_slot, new_value, s1.slot_order[idx + 1])
    ELSE Handled([x1 EXCEPT !.st = [s1 EXCEPT !.response_message =
                        "Changed " \o target_slot \o " to " \o new_value \o "."]],
                 "Changed " \o target_slot \o " to " \o new_value \o ".")

\* _handle_change_intent, lines 346-359: s1 is the state with the new value
\* set and the dependent slots reset
HandleChangeNext(x1, s1, idx, target_slot, new_value) ==
    IF idx < Len(s1.slot_order)
    THEN HandleChangePrompt(
            Fetch([x1 EXCEPT !.st = [s1 EXCEPT !.current_slot_index = idx,
                                               !.awaiting_slot_input = TRUE]],
                  s1.slot_order[idx + 1]),
            target_slot, new_value, s1.slot_order[idx + 1])
    ELSE Handled([x1 EXCEPT !.st = [s1 EXCEPT !.response_message =
                        "Changed " \o target_slot \o " to " \o new_value \o "."]],
                 "Changed " \o target_slot \o " to " \o new_value \o ".")

\* a change that resets the statuses of the later slots and keeps their values
HandleChangeApply_KeepsValues(x1, idx, target_slot, options, oi) ==
    IF oi = 0 \/ ~Truthy(options[oi]) THEN Handled(x1, None)
    ELSE HandleChangeNext(
            x1,
            [x1.st EXCEPT
               !.slot_values = [x1.st.slot_values EXCEPT ![target_slot] = options[oi]],
               !.slot_states = ResetAfter(x1.st.slot_states, x1.st.slot_order, idx, "EMPTY")],
            idx, target_slot, options[oi])

\* _handle_change_intent, lines 334-344: oi is the position of the matched
\* option (0: new_value is None)
HandleChangeApply(x1, idx, target_slot, options, oi) ==
    IF oi = 0 \/ ~Truthy(options[oi]) THEN Handled(x1, None)
    ELSE HandleChangeNext(
            x1,
            [x1.st EXCEPT
               !.slot_values = ResetAfter([x1.st.slot_values EXCEPT ![target_slot] = options[oi]],
                                          x1.st.slot_order, idx, None),
               !.slot_states = ResetAfter(x1.st.slot_states, x1.st.slot_order, idx, "EMPTY")],
            idx, target_slot, options[oi])

\* _handle_change_intent, lines 325-332: x1 is the run after the lookup of
\* the target slot's options
HandleChangeValue(x1, idx, target_slot, options, after_to) ==
    IF x1.raised THEN Handled(x1, None)
    ELSE HandleChangeApply(x1, idx, target_slot, options, MatchFragment(options, after_to))

\* _handle_change_intent, lines 322-326: idx is the position of the target
\* slot (0: none)
HandleChangeSlot(x, idx, after_to) ==
    IF idx = 0 \/ Get(x.st.slot_values, x.st.slot_order[idx]) = None THEN Handled(x, None)
    ELSE HandleChangeValue(Fetch(x, x.st.slot_order[idx]), idx, x.st.slot_order[idx],
                           _options_for_slot(x.st, x.st.slot_order[idx]), after_to)

\* _handle_change_intent, lines 304-320
HandleChangeParts(x, change_parts) ==
    IF Len(change_parts) # 2 THEN Handled(x, None)
    ELSE HandleChangeSlot(
            x,
            FirstIndex(x.st.slot_order,
                       LAMBDA n : Contains(Strip(change_parts[1]), Lower(n))),
            Strip(change_parts[2]))

_handle_change_intent(x, message_lower) ==
    HandleChangeParts(x, Split1(message_lower, " to "))

\* how a process_message call stands: returned, raised, or suspended at
\* asyncio.to_thread with run x in hand
Outcome(kind, store, x, r) == [kind |-> kind, store |-> store, x |-> x, reply |-> r]

\* process_message, lines 295-296: the graph is handed to a worker thread
Suspend(store, m, x) == Outcome("to_thread", store, [x EXCEPT !.st.user_message = m], None)

\* process_message, lines 290-292: h is what _handle_change_intent handed back
HeadChange(store, t, m, h) ==
    IF h.x.raised THEN Outcome("raised", store, h.x, Raised)
    ELSE IF Truthy(h.response)
    THEN Outcome("returned", _save_state(store, t, h.x.st), h.x, h.response)
    ELSE Suspend(store, m, h.x)

\* process_message, lines 286-296: x0 is the run that starts from the loaded
\* state
HeadWith(store, t, m, x0, message_lower) ==
    IF Contains(message_lower, "change") /\ Contains(message_lower, " to ")
    THEN HeadChange(store, t, m, _handle_change_intent(x0, message_lower))
    ELSE Suspend(store, m, x0)

\* process_message up to its return, its raise, or its suspension at
\* asyncio.to_thread. (The awaits of _load_state and _save_state hold the
\* lock over a dict access only, so the lock is free whenever it is asked
\* for and those awaits do not suspend.)
ProcessHead(store, t, m, k) ==
    HeadWith(store, t, m, Run0(_load_state(store, t), k), Lower(m))

\* process_message, lines 297-299: y is the graph's output
\* a turn that saves what the graph had written when a lookup raised
TailWith_SavesPartial(store, t, y) ==
    IF y.raised THEN Outcome("raised", _save_state(store, t, y.st), y, Raised)
    ELSE Outcome("returned", _save_state(store, t, y.st), y,
                 IF Truthy(y.st.response_message) THEN y.st.response_message
                 ELSE "Sorry, I didn't get that.")

TailWith(store, t, y) ==
    IF y.raised THEN Outcome("raised", store, y, Raised)
    ELSE Outcome("returned", _save_state(store, t, y.st), y,
                 IF Truthy(y.st.response_message) THEN y.st.response_message
                 ELSE "Sorry, I didn't get that.")

\* process_message from the return of asyncio.to_thread on
ProcessTail(store, t, x) == TailWith(store, t, invoke(x))

\* the suspended call resumed at once
Resume(store, t, h) == IF h.kind = "to_thread" THEN ProcessTail(store, t, h.x) ELSE h

\* process_message run with no other call interleaved
process_message(store, t, m, k) == Resume(store, t, ProcessHead(store, t, m, k))

-----------------------------------------------------------------------------
(* Bounds and inputs *)

\* the latest option-provider lookup of a turn that may raise
MaxFailAt == 3

\* process_message coroutines that may be suspended at the same time
MaxTasks == 2

\* process_message calls in a behaviour of ConcSpec
MaxCalls == 3

\* The utterances of the turns of Spec: the empty and the blank utterance,
\* options as the provider spells them and in another case, answers no slot
\* offers, change requests (with and without a slot name before " to ", with
\* a replacement that matches, that repeats the old value, that is empty,
\* that matches nothing, that holds a whole option), a reset keyword, small
\* talk, answers that are a part of an option or hold one, and a reset
\* keyword next to "change", and change requests that name two slots (both
\* before " to ", and one on each side of it).
Utterances ==
    {"", "   ",
     "Central Hospital", "North Hospital", " central hospital ",
     "Cardiology", "DERMATOLOGY", "Pediatrics",
     "Dr. Garcia", "Dr. Perez", "dr. lopez", "Dr. Ruiz",
     "2024-05-01 10:00", "2024-05-02 09:30", "2024-05-03 15:00",
     "Invalid Hospital", "Central", "thanks",
     "change hospital to North Hospital", "Change hospital to central",
     "change specialty to derma", "change doctor to perez",
     "change timeslot to 12:00", "change doctor to Dr. Who",
     "change hospital to ", "change hospital", "change to north hospital",
     "another",
     "Cardio", "Cardiology please", "change timeslot to 2024-05-01 12:00",
     "change to another",
     "change doctor and hospital to north", "change doctor to Dr. Perez at the hospital"}

\* the thread ids of Spec and of ConcSpec
SpecThreads == {"t1"}
ConcThreads == {"t1", "t2"}

\* the utterances of the calls of ConcSpec
ConcUtterances ==
    {"", "Central Hospital", "Cardiology", "change hospital to North Hospital"}

\* the utterances of the turns of StoreSpec
StoreUtterances ==
    {"", "Central Hospital", "Cardiology", "Dr. Garcia", "2024-05-01 10:00",
     "change hospital to North Hospital"}

\* the utterances of the turns of FailSpec
FailUtterances ==
    {"", "Central Hospital", "Cardiology", "Dr. Garcia", "2024-05-01 10:00", "nonsense",
     "change hospital to North Hospital", "change to north hospital"}

\* the connections of WsSpec, and a connection not accepted yet
ConnIds == {"ws1", "ws2"}
NoConnection == [state |-> "none", sent |-> <<>>]

\* the frames a connection answers before WsSpec leaves it alone
MaxSent == 2

\* What a client sends: a text that json.loads parses into an object (data
\* holds its fields), a text it cannot parse, or a text that parses into an
\* array.  Absent marks a field the object lacks.
Absent == "<absent>"

FrameData(v) == [key \in {x \in DOMAIN v : v[x] # Absent} |-> v[key]]

Frame(t, k, m) ==
    [json |-> "object", data |-> FrameData([thread_id |-> t, token |-> k, message |-> m])]

WsFrames ==
    {Frame(t, k, m) : t \in {Absent, "", "t1", "t2"}, k \in {Absent, "", "tok"},
                      m \in {Absent, "", "Central Hospital"}}
    \cup {[json |-> "malformed", data |-> <<>>], [json |-> "array", data |-> <<>>]}

\* a context with no answer, and no call of Slot.options made yet
NoContext == [n \in Range(slot_definitions) |-> None]
Unresolved == [slot |-> None, called |-> FALSE, raised |-> FALSE, options |-> <<>>]

\* The contexts of OptSpec: state.slot_values with each answer unset or an
\* option of the reference provider, in every combination (also those no
\* session reaches, such as a specialty without a hospital).
Contexts ==
    {[hospital |-> h, specialty |-> s, doctor |-> d, timeslot |-> t] :
        h \in {None, "Central Hospital", "North Hospital"},
        s \in {None, "Cardiology", "Pediatrics"},
        d \in {None, "Dr. Garcia", "Dr. Ruiz"},
        t \in {None, "2024-05-01 10:00"}}

TaskIds == 1..MaxTasks

\* seen is history: what was stored for the call's thread when the call began
IdleTask ==
    [pc |-> "idle", thread_id |-> None, message |-> None, x |-> Run0(DefaultState, 0),
     seen |-> <<>>]

-----------------------------------------------------------------------------
(* Actions *)

\* no session stored, no call running, no connection open
Idle ==
    /\ threads = [u \in {} |-> DefaultState]
    /\ tasks = [i \in TaskIds |-> IdleTask]
    /\ thread_id = None
    /\ message = None
    /\ reply = None
    /\ happy = 0
    /\ calls = <<>>
    /\ replica = [u \in {} |-> DefaultState]
    /\ websockets = [c \in ConnIds |-> NoConnection]
    /\ active_connections = <<>>

Init ==
    /\ Idle
    /\ context = NoContext
    /\ resolved = Unresolved

\* The utterance is, as sent, an option the provider offers for the slot
\* after the first k slots, given the answers stored so far.
SubmitsOption(s, k, m) ==
    /\ k < Len(slot_definitions)
    /\ m \in Range(SlotOptions(slot_definitions[k + 1], s.slot_values))

\* A call ends with outcome r: what the caller sees.
Ends(t, m, r) ==
    /\ threads' = r.store
    /\ thread_id' = t
    /\ message' = m
    /\ reply' = r.reply

\* One whole process_message call for thread t with utterance m, the option
\* provider raising at its k-th lookup of the call (k = 0: at none), no other
\* call interleaved.
TurnWith(t, m, r, before) ==
    /\ Ends(t, m, r)
    /\ happy' = IF happy >= 0 /\ r.kind = "returned" /\ SubmitsOption(before, happy, m)
                THEN happy + 1 ELSE -1
    /\ UNCHANGED <<tasks, calls, outside>>

Turn(t, m, k) == TurnWith(t, m, process_message(threads, t, m, k), _load_state(threads, t))

\* A process_message call starts in coroutine i: it runs to its return (the
\* change path) or to its suspension at asyncio.to_thread.  Coroutines are
\* interchangeable: a call takes the first idle one.
CallWith(i, t, m, h) ==
    /\ tasks[i].pc = "idle"
    /\ \A j \in TaskIds : j < i => tasks[j].pc # "idle"
    /\ Len(calls) < MaxCalls
    /\ calls' = Append(calls, <<t, m>>)
    /\ happy' = -1
    /\ UNCHANGED outside
    /\ IF h.kind = "to_thread"
       THEN /\ tasks' = [tasks EXCEPT ![i] =
                            [pc |-> "to_thread", thread_id |-> t, message |-> m, x |-> h.x,
                             seen |-> [u \in DOMAIN threads \cap {t} |-> threads[u]]]]
            /\ UNCHANGED <<threads, thread_id, message, reply>>
       ELSE /\ Ends(t, m, h)
            /\ UNCHANGED tasks

Call(i, t, m) == CallWith(i, t, m, ProcessHead(threads, t, m, 0))

\* asyncio.to_thread returns in coroutine i: the graph's output is saved and
\* the reply returned.
ReturnWith(i, r) ==
    /\ tasks[i].pc = "to_thread"
    /\ Ends(tasks[i].thread_id, tasks[i].message, r)
    /\ tasks' = [tasks EXCEPT ![i] = IdleTask]
    /\ UNCHANGED <<happy, calls, outside>>

Return(i) == ReturnWith(i, ProcessTail(threads, tasks[i].thread_id, tasks[i].x))

Next == \E t \in SpecThreads, m \in Utterances : Turn(t, m, 0)

\* The turns of one session, one after the other, the option provider up.
Spec == Init /\ [][Next]_vars

FailNext == \E t \in SpecThreads, m \in FailUtterances, k \in 0..MaxFailAt : Turn(t, m, k)

\* The turns of one session, one after the other, the option provider
\* raising in some of them.
FailSpec == Init /\ [][FailNext]_vars

ConcNext ==
    \/ \E i \in TaskIds, t \in ConcThreads, m \in ConcUtterances : Call(i, t, m)
    \/ \E i \in TaskIds : Return(i)

\* Calls for two sessions, interleaved at asyncio.to_thread.
ConcSpec == Init /\ [][ConcNext]_vars

\* websocket_endpoint (src/src/app.py)

\* await websocket.accept()
Accept(c) ==
    /\ websockets[c].state = "none"
    /\ websockets' = [websockets EXCEPT ![c].state = "open"]
    /\ UNCHANGED <<threads, tasks, thread_id, message, reply, happy, calls, replica,
                   active_connections, lookup>>

\* websocket.send_text(json.dumps(frame)) on connection c, which then is in
\* state st
Sends(c, frame, st) ==
    websockets' = [websockets EXCEPT ![c] = [state |-> st, sent |-> Append(@.sent, frame)]]

\* lines 51-55: an exception in the loop is answered with an error frame and
\* ends the handler
Fails(c, e) ==
    /\ Sends(c, [error |-> "Internal error: " \o e], "closed")
    /\ UNCHANGED <<threads, tasks, thread_id, message, reply, happy, calls, replica, lookup>>

\* json.loads raised, or message_data has no get
FailsToRead(c, f) ==
    /\ Fails(c, IF f.json = "malformed" THEN "Expecting value: line 1 column 1 (char 0)"
                ELSE "'list' object has no attribute 'get'")
    /\ UNCHANGED active_connections

\* a handler that ends the connection after the error frame
Rejects_Closes(c) ==
    /\ Sends(c, [error |-> "Missing thread_id, token or message"], "closed")
    /\ UNCHANGED <<threads, tasks, thread_id, message, reply, happy, calls, replica,
                   active_connections, lookup>>

\* lines 34-38: a field is missing or empty
Rejects(c) ==
    /\ Sends(c, [error |-> "Missing thread_id, token or message"], "open")
    /\ UNCHANGED <<threads, tasks, thread_id, message, reply, happy, calls, replica,
                   active_connections, lookup>>

\* active_connections[thread_id] = websocket
Register(ac, t, c) ==
    IF \E i \in 1..Len(ac) : ac[i][1] = t
    THEN [i \in 1..Len(ac) |-> IF ac[i][1] = t THEN <<t, c>> ELSE ac[i]]
    ELSE Append(ac, <<t, c>>)

\* lines 40-44: r is the outcome of process_message
Answers(c, t, m, r) ==
    /\ active_connections' = Register(active_connections, t, c)
    /\ IF r.kind = "raised"
       THEN Fails(c, "option provider")
       ELSE /\ Ends(t, m, r)
            /\ happy' = -1
            /\ Sends(c, [thread_id |-> t, message |-> r.reply], "open")
            /\ UNCHANGED <<tasks, calls, replica, lookup>>

\* One round of the loop of websocket_endpoint on connection c: frame f is
\* received and answered.
Receive(c, f) ==
    /\ websockets[c].state = "open"
    /\ Len(websockets[c].sent) < MaxSent
    /\ IF f.json # "object" THEN FailsToRead(c, f)
       ELSE IF \/ ~Truthy(Get(f.data, "thread_id"))
               \/ ~Truthy(Get(f.data, "token"))
               \/ ~Truthy(Get(f.data, "message"))
       THEN Rejects(c)
       ELSE Answers(c, f.data["thread_id"], f.data["message"],
                    process_message(threads, f.data["thread_id"], f.data["message"], 0))

\* active_connections.pop(next((tid for tid, conn in
\* active_connections.items() if conn == websocket), None), None)
PopFirst(ac, c) ==
    IF \E i \in 1..Len(ac) : ac[i][2] = c
    THEN [i \in 1..(Len(ac) - 1) |->
            IF i < FirstIndex(ac, LAMBDA e : e[2] = c) THEN ac[i] ELSE ac[i + 1]]
    ELSE ac

\* lines 46-50: the client disconnects while the handler waits for a frame
Disconnect(c) ==
    /\ websockets[c].state = "open"
    /\ websockets' = [websockets EXCEPT ![c].state = "closed"]
    /\ active_connections' = PopFirst(active_connections, c)
    /\ UNCHANGED <<threads, tasks, thread_id, message, reply, happy, calls, replica, lookup>>

WsNext ==
    \/ \E c \in ConnIds : Accept(c)
    \/ \E c \in ConnIds, f \in WsFrames : Receive(c, f)
    \/ \E c \in ConnIds : Disconnect(c)

\* Two websocket connections, their frames handled one at a time.
WsSpec == Init /\ [][WsNext]_vars

\* what a call of Slot.options came to: x is the run after the lookup
ResolvedAs(slot_name, x) ==
    [slot |-> slot_name, called |-> x.lookups = 1, raised |-> x.raised,
     options |-> IF x.raised THEN <<>> ELSE _options_for_slot(x.st, slot_name)]

\* self._options_for_slot(state, slot_name) with state.slot_values = context,
\* the option provider raising when k = 1
Resolve(slot_name, k) ==
    /\ resolved' = ResolvedAs(slot_name,
                              Fetch(Run0([DefaultState EXCEPT !.slot_values = context], k),
                                    slot_name))
    /\ UNCHANGED <<threads, tasks, thread_id, message, reply, happy, calls, replica,
                   websockets, active_connections, context>>

OptInit ==
    /\ Idle
    /\ context \in Contexts
    /\ resolved = Unresolved

OptNext == \E n \in Range(slot_definitions), k \in 0..1 : Resolve(n, k)

\* The options of each slot of the default chain resolved for every context,
\* the option provider up or raising.
OptSpec == OptInit /\ [][OptNext]_vars

\* A second GraphManager is handed the store:
\* new_graph_manager._threads = graph_manager._threads.copy()
HandOver ==
    /\ replica' = [u \in DOMAIN threads |-> threads[u]]
    /\ UNCHANGED <<threads, tasks, thread_id, message, reply, happy, calls,
                   websockets, active_connections, lookup>>

StoreNext ==
    \/ \E t \in SpecThreads, m \in StoreUtterances : Turn(t, m, 0)
    \/ HandOver

\* The turns of one session, one after the other, and the store handed to a
\* second GraphManager at any time; a second thread id stays unknown.
StoreSpec == Init /\ [][StoreNext]_vars

-----------------------------------------------------------------------------
(* What the claims speak of *)

\* the session of the last call as it was stored before the call and as it
\* is stored after it (for a step of Turn)
Before == _load_state(threads, thread_id')
After == _load_state(threads', thread_id')

\* the fields a session keeps from turn to turn, without the turn's own
\* utterance and reply
CoreFields == Fields \ {"user_message", "response_message"}
Core(s) == [f \in CoreFields |-> s[f]]
CoreStore(store) == [u \in DOMAIN store |-> Core(store[u])]

\* the slot at the cursor of a session (the first slot of the chain for a
\* session not stored yet) and the options the provider offers for it
CursorSlot(s) == slot_definitions[s.current_slot_index + 1]
CursorOptions(s) == SlotOptions(CursorSlot(s), s.slot_values)

\* the slot at position i (from 1) of the chain holds a value
Holds(s, i) == Get(s.slot_values, slot_definitions[i]) # None

\* the utterance, trimmed, equals an option of the list up to letter case
EqualsOption(m, options) == \E o \in Range(options) : Lower(Strip(m)) = Lower(o)

\* the text after the first " to " of the lower-cased utterance, trimmed
Fragment(m) == Strip(Split1(Lower(m), " to ")[2])

\* the option matches the fragment: one contains the other, letter case aside
Matches(o, fragment) == Contains(Lower(o), fragment) \/ Contains(fragment, Lower(o))

\* The utterance is a change request "change <slot i> to <fragment>" for the
\* slot at position i: it contains "change" and " to ", slot i is the first
\* slot of the chain named before " to ", slot i holds a value, and the
\* fragment matches an option the provider offers for slot i.
ChangeRequestFor(s, m, i) ==
    /\ Contains(Lower(m), "change")
    /\ Contains(Lower(m), " to ")
    /\ Contains(Strip(Split1(Lower(m), " to ")[1]), slot_definitions[i])
    /\ \A j \in 1..(i - 1) : ~Contains(Strip(Split1(Lower(m), " to ")[1]), slot_definitions[j])
    /\ Holds(s, i)
    /\ \E o \in Range(SlotOptions(slot_definitions[i], s.slot_values)) : Matches(o, Fragment(m))

ChangeRequest(s, m) == \E i \in 1..Len(slot_definitions) : ChangeRequestFor(s, m, i)

\* "Please select a <slot>. Options: <the options the slot has in state s>"
PromptFor(s, slot) ==
    "Please select a " \o slot \o ". Options: " \o Join(SlotOptions(slot, s.slot_values))

-----------------------------------------------------------------------------
(* C1: from a fresh session, four turns that each submit an option valid    *)
(* for the next slot of the chain leave completed false after the first,    *)
(* the second and the third turn and true after the fourth.                 *)

C1_SequentialCompletion ==
    /\ happy >= 1 => "t1" \in DOMAIN threads
    /\ happy \in 1..3 => ~threads["t1"].completed
    /\ happy = 4 => threads["t1"].completed

C1_Witness ==
    /\ happy = 4
    /\ threads["t1"].completed
    /\ threads["t1"].slot_values["timeslot"] = "2024-05-01 10:00"

(* C2: in every stored session state, completed is true if and only if      *)
(* every slot of slot_values holds a value.                                 *)

C2_CompletedIffAllFilled ==
    \A u \in DOMAIN threads :
        threads[u].completed <=>
            \A n \in DOMAIN threads[u].slot_values : threads[u].slot_values[n] # None

(* C3: when slot i holds a value and the turn carries a change request for  *)
(* slot i whose fragment matches one of slot i's options, then after the    *)
(* turn slot i holds a matching option, every later slot is unset and       *)
(* EMPTY, and, unless i is the last slot, the cursor is at slot i+1,         *)
(* awaiting_slot_input is true and the reply prompts for slot i+1.          *)

C3_Step ==
    \A i \in 1..Len(slot_definitions) :
        ChangeRequestFor(Before, message', i) =>
            /\ After.slot_values[slot_definitions[i]]
                  \in {o \in Range(SlotOptions(slot_definitions[i], Before.slot_values)) :
                         Matches(o, Fragment(message'))}
            /\ \A j \in (i + 1)..Len(slot_definitions) :
                  /\ After.slot_values[slot_definitions[j]] = None
                  /\ After.slot_states[slot_definitions[j]] = "EMPTY"
            /\ i < Len(slot_definitions) =>
                  /\ After.current_slot_index = i
                  /\ After.awaiting_slot_input
                  /\ Contains(reply', PromptFor(After, slot_definitions[i + 1]))

Reprompted ==
    /\ Core(After) = Core(Before)
    /\ After.awaiting_slot_input
    /\ process_message(threads', thread_id', message', 0).store = threads'

\* C4 as claimed: for every utterance that equals none of the options
C4_Original ==
    [][(Before.awaiting_slot_input /\ ~EqualsOption(message', CursorOptions(Before)))
         => Reprompted]_vars

\* C4 as amended: for every such utterance that is no change request
C4_IdempotentReprompt ==
    [][(/\ Before.awaiting_slot_input
        /\ ~EqualsOption(message', CursorOptions(Before))
        /\ ~ChangeRequest(Before, message'))
         => Reprompted]_vars

C4_Witness ==
    /\ message = "Invalid Hospital"
    /\ reply = "Please select a specialty. Options: Cardiology, Dermatology"
    /\ threads["t1"].awaiting_slot_input
    /\ threads["t1"].current_slot_index = 1
    /\ threads["t1"].slot_values["hospital"] = "Central Hospital"
    /\ threads["t1"].slot_values["specialty"] = None

(* C5: a turn whose utterance is an invalid value for the slot at the       *)
(* cursor returns a reply that lists the options of that slot.  (Stated for *)
(* the turns that answer a prompt for a slot still unset: the engine awaits *)
(* input, the slot at the cursor holds no value and the utterance is no     *)
(* change request.)                                                         *)

C5_ReplyListsOptions ==
    [][(/\ Before.awaiting_slot_input
        /\ Before.slot_values[CursorSlot(Before)] = None
        /\ ~EqualsOption(message', CursorOptions(Before))
        /\ ~ChangeRequest(Before, message'))
         => Contains(reply', Join(CursorOptions(Before)))]_vars

(* C6: a direct answer that differs from an option of the current slot only *)
(* in letter case and surrounding whitespace is accepted, and the value     *)
(* stored is the option as the provider spells it.                          *)

C6_Step ==
    \A o \in Range(CursorOptions(Before)) :
        (/\ Before.awaiting_slot_input \/ Before.first_message
         /\ Lower(Strip(message')) = Lower(o))
            => After.slot_values[CursorSlot(Before)] = o

C6_CaseInsensitiveMatch == [][C6_Step]_vars

C6_Witness ==
    /\ message = "DERMATOLOGY"
    /\ threads["t1"].user_message = "DERMATOLOGY"
    /\ threads["t1"].slot_values["specialty"] = "Dermatology"
    /\ threads["t1"].current_slot_index = 2

(* C7: when two process_message calls for the same thread_id run            *)
(* concurrently, the state stored afterwards is the state stored by running *)
(* the turns one after the other in some order.  (Stated for the calls of   *)
(* a behaviour, once none is suspended, and for the fields a session keeps  *)
(* from turn to turn.)                                                      *)

\* the stores left by running the calls numbered in todo one after the
\* other, in every order, from store
RECURSIVE SerialOutcomes(_, _)
SerialOutcomes(store, todo) ==
    IF todo = {} THEN {store}
    ELSE UNION {SerialOutcomes(process_message(store, calls[c][1], calls[c][2], 0).store,
                               todo \ {c}) : c \in todo}

Quiescent == \A i \in TaskIds : tasks[i].pc = "idle"

C7_Serializable ==
    Quiescent =>
        CoreStore(threads)
            \in {CoreStore(s) : s \in SerialOutcomes([u \in {} |-> DefaultState],
                                                     1..Len(calls))}

(* C8: a turn for thread A, interleaved in any way with turns for other     *)
(* threads, leaves what is stored for every other thread unchanged, and     *)
(* its reply is the reply the turn gives when A's stored state is all the   *)
(* store holds.                                                             *)

\* what is stored for the threads other than t is the same after the step
OthersUnchanged(t) ==
    /\ DOMAIN threads' \subseteq DOMAIN threads \cup {t}
    /\ \A u \in DOMAIN threads \ {t} : u \in DOMAIN threads' /\ threads'[u] = threads[u]

C8_Step ==
    \A i \in TaskIds :
        /\ (tasks[i].pc = "idle" /\ tasks'[i].pc = "to_thread") => threads' = threads
        /\ (tasks[i].pc = "to_thread" /\ tasks'[i].pc = "idle") =>
              /\ OthersUnchanged(tasks[i].thread_id)
              /\ reply' = process_message(tasks[i].seen, tasks[i].thread_id,
                                          tasks[i].message, 0).reply
        /\ (tasks' = tasks) =>
              /\ OthersUnchanged(thread_id')
              /\ reply' = process_message([u \in DOMAIN threads \cap {thread_id'} |-> threads[u]],
                                          thread_id', message', 0).reply

C8_SessionIsolation == [][C8_Step]_vars

C8_Witness ==
    /\ thread_id = "t1"
    /\ message = "Central Hospital"
    /\ reply = "Please select a specialty. Options: Cardiology, Dermatology"
    /\ DOMAIN threads = {"t1", "t2"}
    /\ threads["t1"].slot_values["hospital"] = "Central Hospital"
    /\ threads["t2"].slot_values["hospital"] = None
    /\ \E i \in TaskIds : tasks[i].pc = "to_thread" /\ tasks[i].thread_id = "t2"

(* C9: if an option-provider lookup raises during a turn, process_message   *)
(* raises and what is stored for the thread is what was stored before the   *)
(* turn.                                                                    *)

C9_NoPartialWrite == [][reply' = Raised => threads' = threads]_vars

C9_Witness ==
    /\ reply = Raised
    /\ message = "change hospital to North Hospital"
    /\ "t1" \in DOMAIN threads
    /\ threads["t1"].slot_values["hospital"] = "Central Hospital"
    /\ threads["t1"].slot_values["doctor"] = "Dr. Garcia"

(* C10: on the first turn of a session, whatever the utterance is, the turn *)
(* sets no slot value, clears first_message and replies with the prompt for *)
(* the slot at cursor 0.                                                    *)

FirstTurnNoOp ==
    /\ \A n \in Range(slot_definitions) : After.slot_values[n] = None
    /\ ~After.first_message
    /\ reply' = PromptFor(After, slot_definitions[1])

\* C10 as claimed: for every utterance
C10_Original == [][Before.first_message => FirstTurnNoOp]_vars

\* C10 as amended: for every utterance that is not, trimmed and letter case
\* aside, an option of the first slot
C10_FirstTurnNoOp ==
    [][(Before.first_message /\ ~EqualsOption(message', CursorOptions(Before)))
         => FirstTurnNoOp]_vars

C10_Witness ==
    /\ message = "change hospital to North Hospital"
    /\ reply = "Please select a hospital. Options: Central Hospital, North Hospital"
    /\ threads["t1"].user_message = "change hospital to North Hospital"
    /\ threads["t1"].slot_values["hospital"] = None
    /\ ~threads["t1"].first_message

(* C11: when the first utterance of a session equals, letter case aside,    *)
(* an option of the first slot, the turn stores that option as the first    *)
(* slot's value, leaves completed false and replies with the prompt for the *)
(* second slot.  (Stated also for an utterance with spaces around it.)      *)

C11_Step ==
    \A o \in Range(get_hospitals) :
        (Before.first_message /\ Lower(Strip(message')) = Lower(o)) =>
            /\ After.slot_values[slot_definitions[1]] = o
            /\ ~After.completed
            /\ reply' = PromptFor(After, slot_definitions[2])

C11_FirstTurnShortcut == [][C11_Step]_vars

C11_Witness ==
    /\ message = " central hospital "
    /\ happy = -1
    /\ reply = "Please select a specialty. Options: Cardiology, Dermatology"
    /\ threads["t1"].user_message = " central hospital "
    /\ threads["t1"].slot_values["hospital"] = "Central Hospital"
    /\ \A n \in {"specialty", "doctor", "timeslot"} : threads["t1"].slot_values[n] = None
    /\ ~threads["t1"].completed

(* C12: a turn whose utterance is empty or whitespace-only, on the first    *)
(* turn or in any later state, changes no slot value, no slot status, not   *)
(* current_slot_index and not completed; it sets awaiting_slot_input and    *)
(* replies with the prompt for the slot at the cursor.  (A session not      *)
(* stored yet has every slot unset and EMPTY.)                              *)

\* the status of a slot in a session, EMPTY for a session not stored yet
StatusOf(s, n) == IF n \in DOMAIN s.slot_states THEN s.slot_states[n] ELSE "EMPTY"

C12_Step ==
    Strip(message') = "" =>
        /\ \A n \in Range(slot_definitions) :
              /\ After.slot_values[n] = Get(Before.slot_values, n)
              /\ After.slot_states[n] = StatusOf(Before, n)
        /\ After.current_slot_index = Before.current_slot_index
        /\ After.completed = Before.completed
        /\ After.awaiting_slot_input
        /\ reply' = PromptFor(After, CursorSlot(After))

C12_EmptyUtterance == [][C12_Step]_vars

C12_Witness ==
    /\ message = "   "
    /\ reply = "Please select a timeslot. Options: 2024-05-01 10:00, 2024-05-01 12:00"
    /\ threads["t1"].completed
    /\ threads["t1"].awaiting_slot_input
    /\ threads["t1"].slot_values["timeslot"] = "2024-05-01 12:00"
    /\ threads["t1"].current_slot_index = 3

(* C13: in every stored session state the key set of slot_values and the   *)
(* key set of slot_states both equal the set of names in slot_order.        *)

C13_KeysAreSlotOrder ==
    \A u \in DOMAIN threads :
        /\ DOMAIN threads[u].slot_values = Range(threads[u].slot_order)
        /\ DOMAIN threads[u].slot_states = Range(threads[u].slot_order)

\* a session written by the change path after its four slots were filled
C13_Witness ==
    /\ message = "change doctor to perez"
    /\ reply = "Changed doctor to Dr. Perez. Please select a timeslot. Options: 2024-05-02 09:30"
    /\ threads["t1"].user_message = "2024-05-01 10:00"
    /\ threads["t1"].slot_order = slot_definitions
    /\ DOMAIN threads["t1"].slot_values = {"hospital", "specialty", "doctor", "timeslot"}
    /\ DOMAIN threads["t1"].slot_states = {"hospital", "specialty", "doctor", "timeslot"}
    /\ threads["t1"].slot_values["timeslot"] = None

(* C14: in every stored session state                                       *)
(* 0 <= current_slot_index < len(slot_order).                               *)

C14_CursorInRange ==
    \A u \in DOMAIN threads :
        /\ 0 <= threads[u].current_slot_index
        /\ threads[u].current_slot_index < Len(threads[u].slot_order)

\* the cursor at the last slot after a change of the last slot
C14_Witness ==
    /\ message = "change timeslot to 12:00"
    /\ reply = "Changed timeslot to 2024-05-01 12:00."
    /\ threads["t1"].current_slot_index = Len(threads["t1"].slot_order) - 1
    /\ threads["t1"].slot_values["timeslot"] = "2024-05-01 12:00"

(* C15: in every stored session state, if awaiting_slot_input is true then *)
(* the status of the slot at current_slot_index is FILLING or CHANGING.     *)

C15_AwaitedSlotStatus ==
    \A u \in DOMAIN threads :
        threads[u].awaiting_slot_input =>
            threads[u].slot_states[CurrentSlot(threads[u])] \in {"FILLING", "CHANGING"}

(* C16: the state stored for a thread between turns holds neither the      *)
(* utterance nor the reply of any turn: in every stored state user_message  *)
(* and response_message are absent or unset.                                *)

C16_NoTransientFieldsStored ==
    \A u \in DOMAIN threads :
        /\ Get(threads[u], "user_message") = None
        /\ Get(threads[u], "response_message") = None

(* C20: when the engine is awaiting input, an utterance that is a proper    *)
(* part of an option, or that properly holds an option, but equals no       *)
(* option (trimmed, letter case aside) is rejected and stores no value.     *)

\* the utterance, trimmed and not empty, is a part of an option of the list
\* or holds one, letter case aside
PartOfOrHolding(m, options) ==
    /\ Strip(m) # ""
    /\ \E o \in Range(options) :
          \/ Contains(Lower(o), Lower(Strip(m)))
          \/ Contains(Lower(Strip(m)), Lower(o))

NothingStored ==
    /\ After.slot_values = Before.slot_values
    /\ After.slot_states = Before.slot_states
    /\ After.current_slot_index = Before.current_slot_index

\* C20 as claimed
C20_Original ==
    [][(/\ Before.awaiting_slot_input
        /\ PartOfOrHolding(message', CursorOptions(Before))
        /\ ~EqualsOption(message', CursorOptions(Before)))
         => NothingStored]_vars

\* C20 as amended: for an utterance that is no change request
C20_ExactMatchOnly ==
    [][(/\ Before.awaiting_slot_input
        /\ PartOfOrHolding(message', CursorOptions(Before))
        /\ ~EqualsOption(message', CursorOptions(Before))
        /\ ~ChangeRequest(Before, message'))
         => NothingStored]_vars

\* "Cardiology please" answered to the prompt for specialty
C20_Witness ==
    /\ message = "Cardiology please"
    /\ reply = "Please select a specialty. Options: Cardiology, Dermatology"
    /\ threads["t1"].user_message = "Cardiology please"
    /\ threads["t1"].current_slot_index = 1
    /\ threads["t1"].slot_values["hospital"] = "Central Hospital"
    /\ threads["t1"].slot_values["specialty"] = None

(* C18: for every reachable state and every utterance, when no option      *)
(* lookup fails, process_message visits each graph node at most once,       *)
(* reaches END and returns one non-empty reply string.  (A change request   *)
(* applied before the graph visits no node.)                                *)

\* the walk reached END, visited no node twice, and its output is what the
\* turn stored and replied
WalkedOnce(w) ==
    /\ w.ended
    /\ \A i, j \in 1..Len(w.path) : w.path[i] = w.path[j] => i = j
    /\ threads' = _save_state(threads, thread_id', w.x.st)
    /\ reply' = w.x.st.response_message

C18_StepOf(h) ==
    /\ reply' \notin {None, Raised, ""}
    /\ h.kind = "to_thread" => WalkedOnce(Walk("init", h.x, <<>>))
    /\ h.kind # "to_thread" => reply' = h.reply

C18_Step == C18_StepOf(ProcessHead(threads, thread_id', message', 0))

C18_OneReplyPerTurn == [][C18_Step]_vars

\* a turn that visited init, detect_intent, process_slot and complete
C18_Witness ==
    /\ happy = 4
    /\ message = "2024-05-02 09:30"
    /\ threads["t1"].completed
    /\ reply = _format_completion(threads["t1"])
    /\ threads["t1"].slot_values["doctor"] = "Dr. Perez"

(* C17: _load_state(t) after _save_state(t, s) returns a state equal to s   *)
(* on slot_order, slot_values, slot_states, current_slot_index,             *)
(* awaiting_slot_input, completed and first_message, also when the store    *)
(* is handed to a second GraphManager; _load_state of an unknown thread_id  *)
(* returns the default state.  (Stated for every state s a turn saves.)     *)

\* r is the outcome of the turn of the step: r.x.st is the state it saved
SavedThenLoaded(r) ==
    /\ threads' = _save_state(threads, thread_id', r.x.st)
    /\ Core(_load_state(threads', thread_id')) = Core(r.x.st)

C17_Step ==
    /\ threads' # threads =>
          SavedThenLoaded(process_message(threads, thread_id', message', 0))
    /\ replica' # replica =>
          /\ DOMAIN replica' = DOMAIN threads
          /\ \A u \in DOMAIN threads :
                Core(_load_state(replica', u)) = Core(_load_state(threads, u))
    /\ \A u \in ConcThreads :
          /\ u \notin DOMAIN threads' => _load_state(threads', u) = DefaultState
          /\ u \notin DOMAIN replica' => _load_state(replica', u) = DefaultState

Incomplete(f) ==
    /\ f.json = "object"
    /\ \E key \in {"thread_id", "token", "message"} : Get(f.data, key) \in {None, ""}

\* the last frame sent on connection c after the step
Answer(c) == websockets'[c].sent[Len(websockets'[c].sent)]

\* the step answered on c with an error frame and nothing else happened
AnsweredWithError(c) ==
    /\ Len(websockets'[c].sent) = Len(websockets[c].sent) + 1
    /\ DOMAIN Answer(c) = {"error"}
    /\ websockets'[c].state = "open"
    /\ UNCHANGED <<threads, thread_id, message, reply, tasks, calls, active_connections>>

\* the step answered on c what process_message returns for the frame, and
\* stored what it stores
ProcessedNormally(c, t, m, r) ==
    /\ Len(websockets'[c].sent) = Len(websockets[c].sent) + 1
    /\ Answer(c) = [thread_id |-> t, message |-> r.reply]
    /\ threads' = r.store
    /\ websockets'[c].state = "open"

\* an error frame was sent on connection c
ErrorSent(c) ==
    \E i \in 1..Len(websockets[c].sent) : DOMAIN websockets[c].sent[i] = {"error"}

C19_Step ==
    \A c \in ConnIds, f \in WsFrames :
        Receive(c, f) =>
            /\ Incomplete(f) => AnsweredWithError(c)
            /\ (f.json = "object" /\ ~Incomplete(f) /\ ErrorSent(c)) =>
                  ProcessedNormally(c, f.data["thread_id"], f.data["message"],
                                    process_message(threads, f.data["thread_id"],
                                                    f.data["message"], 0))

C19_TransportValidation == [][C19_Step]_vars

\* an error frame, then the answer to a well-formed frame, on one connection
C19_Witness ==
    /\ websockets["ws1"].state = "open"
    /\ websockets["ws1"].sent =
          <<[error |-> "Missing thread_id, token or message"],
            [thread_id |-> "t1",
             message |-> "Please select a specialty. Options: Cardiology, Dermatology"]>>
    /\ DOMAIN threads = {"t1"}
    /\ threads["t1"].slot_values["hospital"] = "Central Hospital"
    /\ active_connections = <<<<"t1", "ws1">>>>


(* C21: in a turn that is not the first of its session, with a non-empty    *)
(* utterance and the engine awaiting input, no slot other than the slot at  *)
(* the cursor is modified: its value and its status stay as they were.      *)

\* every slot but the slot at the cursor keeps its value and its status
OnlyCursorSlotTouched ==
    \A n \in Range(slot_definitions) \ {CursorSlot(Before)} :
        /\ After.slot_values[n] = Before.slot_values[n]
        /\ After.slot_states[n] = Before.slot_states[n]

\* C21 as claimed: for every non-empty utterance
C21_Original ==
    [][(~Before.first_message /\ message' # "" /\ Before.awaiting_slot_input)
         => OnlyCursorSlotTouched]_vars

\* C21 as amended: for every non-empty utterance that is no change request
C21_AwaitingTakesPrecedence ==
    [][(/\ ~Before.first_message
        /\ message' # ""
        /\ Before.awaiting_slot_input
        /\ ~ChangeRequest(Before, message'))
         => OnlyCursorSlotTouched]_vars

\* "another", sent while the engine awaits the timeslot of a booked session
\* again, is answered as an invalid timeslot and resets nothing
C21_Witness ==
    /\ message = "another"
    /\ threads["t1"].user_message = "another"
    /\ threads["t1"].awaiting_slot_input
    /\ threads["t1"].completed
    /\ threads["t1"].current_slot_index = 3
    /\ threads["t1"].slot_values["hospital"] = "Central Hospital"
    /\ threads["t1"].slot_values["timeslot"] = "2024-05-01 10:00"


(* C22: a change request that names only slots holding no value is ignored: *)
(* the turn changes no slot value, no slot status, not current_slot_index   *)
(* and not completed, and the reply re-prompts the slot at the cursor.      *)

\* the slots of the chain the utterance names, letter case aside
NamedSlots(m) == {i \in 1..Len(slot_definitions) : Contains(Lower(m), slot_definitions[i])}

\* the utterance contains "change" and names a slot, and no slot it names
\* holds a value
ChangeOfUnfilledOnly(s, m) ==
    /\ Contains(Lower(m), "change")
    /\ NamedSlots(m) # {}
    /\ \A i \in NamedSlots(m) : ~Holds(s, i)

C22_Step ==
    ChangeOfUnfilledOnly(Before, message') =>
        /\ \A n \in Range(slot_definitions) :
              /\ After.slot_values[n] = Get(Before.slot_values, n)
              /\ After.slot_states[n] = StatusOf(Before, n)
        /\ After.current_slot_index = Before.current_slot_index
        /\ After.completed = Before.completed
        /\ reply' = PromptFor(After, CursorSlot(After))

C22_UnfilledChangeIgnored == [][C22_Step]_vars


(* C23: when awaiting_slot_input is false and the utterance contains        *)
(* "change" and the name of a slot i that holds a value, but no replacement *)
(* value matches an option, the turn marks slot i CHANGING, resets every    *)
(* later slot to EMPTY with its value unset, sets current_slot_index to i,  *)
(* sets awaiting_slot_input and replies with the prompt for slot i.  (Slot  *)
(* i is the first slot of the chain that is named and holds a value.)       *)

\* slot i is the first slot of the chain that the utterance names and that
\* holds a value
FirstNamedFilled(s, m, i) ==
    /\ i \in NamedSlots(m)
    /\ Holds(s, i)
    /\ \A j \in NamedSlots(m) : Holds(s, j) => i <= j

\* the utterance carries no replacement for slot i: it has no " to ", or
\* the text after " to " matches none of the slot's options
NoReplacement(s, m, i) ==
    \/ ~Contains(Lower(m), " to ")
    \/ \A o \in Range(SlotOptions(slot_definitions[i], s.slot_values)) :
          ~Matches(o, Fragment(m))

C23_Step ==
    \A i \in 1..Len(slot_definitions) :
        (/\ ~Before.awaiting_slot_input
         /\ Contains(Lower(message'), "change")
         /\ FirstNamedFilled(Before, message', i)
         /\ NoReplacement(Before, message', i))
            => /\ After.slot_states[slot_definitions[i]] = "CHANGING"
               /\ \A j \in (i + 1)..Len(slot_definitions) :
                     /\ After.slot_values[slot_definitions[j]] = None
                     /\ After.slot_states[slot_definitions[j]] = "EMPTY"
               /\ After.current_slot_index = i - 1
               /\ After.awaiting_slot_input
               /\ reply' = PromptFor(After, slot_definitions[i])

C23_ChangeWithoutReplacement == [][C23_Step]_vars


(* C24: after every turn in which a change request replaced the value of a  *)
(* slot, by _handle_change_intent or by the change branch of                *)
(* _detect_intent, the changed slot's status in the stored state is FILLED, *)
(* and FILLED stays the status of that slot as long as it holds that value. *)

\* the text after the first " to " of the trimmed, lower-cased utterance
DetectFragment(m) == Strip(Split1(Lower(Strip(m)), " to ")[2])

\* The change branch of _detect_intent replaces the value of slot i: the
\* turn is not the first, no input is awaited, _handle_change_intent applies
\* nothing, the utterance contains "change" and " to ", slot i is the first
\* filled slot it names and the text after " to " matches one of its options.
DetectChangeFor(s, m, i) ==
    /\ ~s.first_message
    /\ ~s.awaiting_slot_input
    /\ ~ChangeRequest(s, m)
    /\ Contains(Lower(Strip(m)), "change")
    /\ Contains(Lower(Strip(m)), " to ")
    /\ FirstNamedFilled(s, Strip(m), i)
    /\ \E o \in Range(SlotOptions(slot_definitions[i], s.slot_values)) :
          Matches(o, DetectFragment(m))

C24_Step ==
    \A i \in 1..Len(slot_definitions) :
        /\ (ChangeRequestFor(Before, message', i) \/ DetectChangeFor(Before, message', i))
              => After.slot_states[slot_definitions[i]] = "FILLED"
        /\ (/\ Holds(Before, i)
            /\ StatusOf(Before, slot_definitions[i]) = "FILLED"
            /\ After.slot_values[slot_definitions[i]] = Before.slot_values[slot_definitions[i]])
              => After.slot_states[slot_definitions[i]] = "FILLED"

C24_ChangedSlotFilled == [][C24_Step]_vars


(* C25: when every slot holds a value, awaiting_slot_input is false and the *)
(* utterance contains no effective change request and contains one of       *)
(* "another", "new", "different", then after the turn every slot value is   *)
(* unset, every status is EMPTY, current_slot_index = 0, completed is       *)
(* false, awaiting_slot_input is true and the reply is the prompt for the   *)
(* first slot.  (A change request is effective when it replaces a value.)   *)

\* every slot of the chain holds a value
EverySlotHolds(s) == \A i \in 1..Len(slot_definitions) : Holds(s, i)

\* the utterance is a change request that replaces a value, by either path
EffectiveChange(s, m) ==
    \/ ChangeRequest(s, m)
    \/ \E i \in 1..Len(slot_definitions) : DetectChangeFor(s, m, i)

ResetKeyword(m) == \E w \in {"another", "new", "different"} : Contains(Lower(m), w)

\* the session after the turn is a fresh one, prompted for the first slot
StartedOver ==
    /\ \A n \in Range(slot_definitions) :
          /\ After.slot_values[n] = None
          /\ After.slot_states[n] = "EMPTY"
    /\ After.current_slot_index = 0
    /\ ~After.completed
    /\ After.awaiting_slot_input
    /\ reply' = PromptFor(After, slot_definitions[1])

C25_Step ==
    (/\ EverySlotHolds(Before)
     /\ ~Before.awaiting_slot_input
     /\ ~EffectiveChange(Before, message')
     /\ ResetKeyword(message'))
        => StartedOver

C25_ResetForNewBooking == [][C25_Step]_vars


(* C26: in every reachable state where every slot holds a value and         *)
(* awaiting_slot_input is false, a non-empty utterance that is neither a    *)
(* change request nor contains a reset keyword yields the booking           *)
(* confirmation reply and leaves slot values, statuses, current_slot_index, *)
(* completed and awaiting_slot_input unchanged.  (Non-empty once trimmed; a *)
(* change request is one that replaces a value.)                            *)

C26_Step ==
    (/\ EverySlotHolds(Before)
     /\ ~Before.awaiting_slot_input
     /\ Strip(message') # ""
     /\ ~EffectiveChange(Before, message')
     /\ ~ResetKeyword(message'))
        => /\ reply' = _format_completion(Before)
           /\ After.slot_values = Before.slot_values
           /\ After.slot_states = Before.slot_states
           /\ After.current_slot_index = Before.current_slot_index
           /\ After.completed = Before.completed
           /\ After.awaiting_slot_input = Before.awaiting_slot_input

C26_ReConfirmation == [][C26_Step]_vars


(* C27: over every sequence of turns, no reply is ever "We still need more  *)
(* information to finalise your appointment.": the complete node is entered *)
(* only when every slot holds a value.                                      *)

C27_MissingInformationUnreachable ==
    reply # "We still need more information to finalise your appointment."


(* C28: the reply process_message returns for an invalid direct answer is a *)
(* rejection that names the invalid value the user sent; it differs from    *)
(* the plain prompt for the slot.  (An invalid direct answer: the engine    *)
(* awaits input and the utterance, not empty once trimmed, equals no option *)
(* of the slot at the cursor and is no change request.)                     *)

InvalidDirectAnswer(s, m) ==
    /\ ~s.first_message
    /\ s.awaiting_slot_input
    /\ Strip(m) # ""
    /\ ~EqualsOption(m, CursorOptions(s))
    /\ ~ChangeRequest(s, m)

C28_Step ==
    InvalidDirectAnswer(Before, message') =>
        /\ Contains(reply', Strip(message'))
        /\ reply' # PromptFor(Before, CursorSlot(Before))

C28_RejectionReply == [][C28_Step]_vars


(* C29: when a valid direct answer fills a slot that is not the last one,   *)
(* the reply process_message returns announces the value just accepted and  *)
(* prompts for the next slot with its options; the cursor advances by       *)
(* exactly one and awaiting_slot_input is true.                             *)

C29_Step ==
    \A o \in Range(CursorOptions(Before)) :
        (/\ ~Before.first_message
         /\ Before.awaiting_slot_input
         /\ Lower(Strip(message')) = Lower(o)
         /\ Before.current_slot_index < Len(slot_definitions) - 1)
            => /\ Contains(reply', o)
               /\ Contains(reply', CursorSlot(After))
               /\ Contains(reply', Join(CursorOptions(After)))
               /\ After.current_slot_index = Before.current_slot_index + 1
               /\ After.awaiting_slot_input

C29_AcceptanceReply == [][C29_Step]_vars


(* C30: when a change utterance names two or more slots that hold values,   *)
(* the slot changed is the one with the lowest index in slot_order, and no  *)
(* other named slot is treated as the change target.  (The slot changed by  *)
(* a turn is the last slot that holds a value after it: a change unsets     *)
(* every later slot.)                                                       *)

\* the slots the utterance names that hold a value
NamedFilled(s, m) == {i \in NamedSlots(m) : Holds(s, i)}

\* slot i is the slot the turn changed
ChangedSlotIs(i) ==
    /\ Holds(After, i)
    /\ \A j \in (i + 1)..Len(slot_definitions) : ~Holds(After, j)

C30_Step ==
    \A i \in 1..Len(slot_definitions) :
        (/\ EffectiveChange(Before, message')
         /\ Cardinality(NamedFilled(Before, message')) >= 2
         /\ FirstNamedFilled(Before, message', i))
            => ChangedSlotIs(i)

C30_SlotTieBreak == [][C30_Step]_vars


(* C31: the replacement a change request stores is the first option, in the *)
(* order the option provider returns for the target slot under the stored   *)
(* upstream answers, such that the lower-cased option contains the fragment *)
(* after " to " or the fragment contains the lower-cased option; when no    *)
(* option does, the change request stores nothing.                          *)

\* v is the first option of the list that matches the fragment
IsFirstMatch(v, options, fragment) ==
    \E k \in 1..Len(options) :
        /\ options[k] = v
        /\ Matches(options[k], fragment)
        /\ \A j \in 1..(k - 1) : ~Matches(options[j], fragment)

\* no slot holds a value after the turn that it did not hold before
NoValueStored ==
    \A n \in Range(slot_definitions) :
        After.slot_values[n] \in {None, Get(Before.slot_values, n)}

C31_Step ==
    /\ \A i \in 1..Len(slot_definitions) :
          /\ ChangeRequestFor(Before, message', i) =>
                IsFirstMatch(After.slot_values[slot_definitions[i]],
                             SlotOptions(slot_definitions[i], Before.slot_values),
                             Fragment(message'))
          /\ DetectChangeFor(Before, message', i) =>
                IsFirstMatch(After.slot_values[slot_definitions[i]],
                             SlotOptions(slot_definitions[i], Before.slot_values),
                             DetectFragment(message'))
    /\ (/\ Contains(Lower(message'), "change")
        /\ Contains(Lower(message'), " to ")
        /\ ~EffectiveChange(Before, message'))
          => NoValueStored

C31_OptionTieBreak == [][C31_Step]_vars

\* an empty fragment matches both hospitals; the first one replaces North
\* Hospital
C31_Witness ==
    /\ message = "change hospital to "
    /\ reply = "Changed hospital to Central Hospital. Please select a specialty. "
               \o "Options: Cardiology, Dermatology"
    /\ threads["t1"].user_message = "Pediatrics"
    /\ threads["t1"].slot_values["hospital"] = "Central Hospital"
    /\ threads["t1"].slot_values["specialty"] = None


(* C32: for the default chain, resolving the options of specialty, doctor   *)
(* or timeslot when any lower-index answer is unset returns the empty list  *)
(* without calling the option provider and without raising; resolving       *)
(* hospital always returns the provider's hospital list (it raises only     *)
(* when the provider does).                                                 *)

\* an answer of the context for a slot before slot_name is unset
UpstreamUnset(slot_name) ==
    \E j \in 1..(PosOf(slot_definitions, slot_name) - 1) :
        context[slot_definitions[j]] = None

C32_UnmetDependencies ==
    /\ (resolved.slot \in {"specialty", "doctor", "timeslot"} /\ UpstreamUnset(resolved.slot))
          => /\ resolved.options = <<>>
             /\ ~resolved.called
             /\ ~resolved.raised
    /\ resolved.slot = "hospital"
          => /\ resolved.called
             /\ ~resolved.raised => resolved.options = get_hospitals

\* the doctors resolved for a context with a hospital and no specialty, the
\* provider down
C32_Witness ==
    /\ resolved.slot = "doctor"
    /\ context["hospital"] = "Central Hospital"
    /\ context["specialty"] = None
    /\ context["doctor"] = "Dr. Garcia"
    /\ resolved.options = <<>>
    /\ ~resolved.called


(* C33: in every stored state, every slot with index < current_slot_index   *)
(* holds a value and every slot with index > current_slot_index holds none; *)
(* the slot at the cursor holds a value only when every slot holds a value. *)

C33_FilledPrefix ==
    \A u \in DOMAIN threads :
        /\ \A i \in 1..Len(slot_definitions) :
              /\ i - 1 < threads[u].current_slot_index => Holds(threads[u], i)
              /\ i - 1 > threads[u].current_slot_index => ~Holds(threads[u], i)
        /\ Holds(threads[u], threads[u].current_slot_index + 1) => EverySlotHolds(threads[u])

\* a booked session after its specialty was changed
C33_Witness ==
    /\ message = "change specialty to derma"
    /\ threads["t1"].user_message = "2024-05-01 10:00"
    /\ threads["t1"].current_slot_index = 2
    /\ threads["t1"].slot_values["specialty"] = "Dermatology"
    /\ threads["t1"].slot_values["doctor"] = None
    /\ threads["t1"].slot_values["timeslot"] = None


(* C34: in every stored state, each slot value that is set is a member of   *)
(* the option list the option provider returns for that slot given the      *)
(* stored values of the lower-index slots.                                  *)

C34_NoStaleAnswers ==
    \A u \in DOMAIN threads :
        \A i \in 1..Len(slot_definitions) :
            Holds(threads[u], i) =>
                threads[u].slot_values[slot_definitions[i]]
                    \in Range(SlotOptions(slot_definitions[i], threads[u].slot_values))

\* a session booked at Central Hospital, moved to North Hospital and
\* answered anew up to the doctor
C34_Witness ==
    /\ message = "Dr. Ruiz"
    /\ threads["t1"].completed
    /\ threads["t1"].slot_values["hospital"] = "North Hospital"
    /\ threads["t1"].slot_values["specialty"] = "Pediatrics"
    /\ threads["t1"].slot_values["doctor"] = "Dr. Ruiz"
    /\ threads["t1"].slot_values["timeslot"] = None


(* C35: a turn that changes slot i by a change request leaves the value and *)
(* the status of every slot with index < i exactly as they were before the  *)
(* turn.                                                                    *)

C35_Step ==
    \A i \in 1..Len(slot_definitions) :
        (ChangeRequestFor(Before, message', i) \/ DetectChangeFor(Before, message', i))
            => \A j \in 1..(i - 1) :
                  /\ After.slot_values[slot_definitions[j]] = Before.slot_values[slot_definitions[j]]
                  /\ After.slot_states[slot_definitions[j]] = Before.slot_states[slot_definitions[j]]

C35_UpstreamUntouched == [][C35_Step]_vars

\* the timeslot of a booked session changed, the three answers before it kept
C35_Witness ==
    /\ message = "change timeslot to 12:00"
    /\ reply = "Changed timeslot to 2024-05-01 12:00."
    /\ threads["t1"].slot_values["hospital"] = "Central Hospital"
    /\ threads["t1"].slot_values["specialty"] = "Cardiology"
    /\ threads["t1"].slot_values["doctor"] = "Dr. Garcia"
    /\ \A n \in {"hospital", "specialty", "doctor"} : threads["t1"].slot_states[n] = "FILLED"


(* C36: with the reference MockApiClient, in every stored state in which    *)
(* awaiting_slot_input is true, the option list resolved for the slot at    *)
(* the cursor is non-empty, so some direct answer is accepted.              *)

C36_NoDeadEndPrompt ==
    \A u \in DOMAIN threads :
        threads[u].awaiting_slot_input =>
            SlotOptions(CurrentSlot(threads[u]), threads[u].slot_values) # <<>>


(* C37: once every slot of a session holds a value, no slot value changes   *)
(* in a later turn unless that turn's utterance is a change request or      *)
(* contains one of the reset keywords "another", "new", "different".        *)

ValuesKept == After.slot_values = Before.slot_values

\* C37 as claimed
C37_Original ==
    [][(/\ EverySlotHolds(Before)
        /\ ~EffectiveChange(Before, message')
        /\ ~ResetKeyword(message'))
         => ValuesKept]_vars

\* C37 as amended: unless, too, the engine awaits input and the utterance
\* equals an option of the slot at the cursor
C37_AlteredOnlyOnRequest ==
    [][(/\ EverySlotHolds(Before)
        /\ ~EffectiveChange(Before, message')
        /\ ~ResetKeyword(message')
        /\ ~(Before.awaiting_slot_input /\ EqualsOption(message', CursorOptions(Before))))
         => ValuesKept]_vars

\* small talk after the booking
C37_Witness ==
    /\ message = "thanks"
    /\ threads["t1"].user_message = "thanks"
    /\ threads["t1"].completed
    /\ ~threads["t1"].awaiting_slot_input
    /\ threads["t1"].slot_values["doctor"] = "Dr. Garcia"
    /\ threads["t1"].slot_values["timeslot"] = "2024-05-01 10:00"


(* C38: when the text after " to " in a change utterance is empty after     *)
(* trimming, the turn modifies no slot value and resets no downstream slot. *)

C38_EmptyFragmentIgnored ==
    [][(/\ Contains(Lower(message'), "change")
        /\ Contains(Lower(message'), " to ")
        /\ Fragment(message') = "")
         => \A n \in Range(slot_definitions) :
                After.slot_values[n] = Get(Before.slot_values, n)]_vars


(* C39: after a websocket connection has ended, by a client disconnect or   *)
(* by an exception in the handler, active_connections holds no entry whose  *)
(* value is that websocket, also when the connection sent messages under    *)
(* two or more thread_ids.                                                  *)

C39_RegistryCleanup ==
    \A c \in ConnIds :
        websockets[c].state = "closed" =>
            \A i \in 1..Len(active_connections) : active_connections[i][2] # c

=============================================================================
